---- MODULE Spec2Model ----
(***************************************************************************)
(* The WebRTC signaling session coordinator (class WebRTCService, the      *)
(* revision with Join envelopes and bounded reconnection) as a state       *)
(* machine.  One coordinator per role; the browser's RTCPeerConnection is  *)
(* modelled by its signaling state, its remote descriptions and its        *)
(* operations chain, on which every asynchronous call of the coordinator   *)
(* waits together with the continuation that resumes when it settles.      *)
(***************************************************************************)
EXTENDS Naturals, Sequences, FiniteSets

VARIABLES co, net, bud, obs

vars == <<co, net, bud, obs>>

(***************************************************************************)
(* Bounds of the model.                                                    *)
(***************************************************************************)
MaxEvents == 5      \* environment events (envelopes, calls of the caller) of a run
MaxCleanup == 2     \* cleanup() calls of the caller
TimerCap == 2       \* pending timers of one kind that are told apart
CountCap == 3       \* observation counters saturate here

maxReconnectAttempts == 3

\* the call screen calls startCall() once on the coordinator it constructs
MaxStart == 1

Roles == {"interviewer", "candidate"}

Other(r) == IF r = "interviewer" THEN "candidate" ELSE "interviewer"

Inc(n) == IF n < CountCap THEN n + 1 ELSE n

Arm(n) == IF n < TimerCap THEN n + 1 ELSE n

(***************************************************************************)
(* Signal envelopes (interface RTCSignalData).  n is the payload: the      *)
(* sender's offer number for an offer, the number of the offer answered    *)
(* for an answer, the candidate's number for an ICE candidate.  tr tells   *)
(* whether the description carries the sender's media tracks.  col is the  *)
(* receiver's note on an Offer it accepts: it arrived during a collision.  *)
(***************************************************************************)
Signal(type, n, tr, from, to, role) ==
    [type |-> type, n |-> n, tr |-> tr, from |-> from, to |-> to, role |-> role,
     col |-> FALSE]

NoSignal == Signal("none", 0, FALSE, "none", "none", "none")

(***************************************************************************)
(* The browser's RTCPeerConnection.                                        *)
(***************************************************************************)
NewPeerConnection ==
    [ sig        |-> "stable",
      pendRemote |-> FALSE,
      curRemote  |-> FALSE,
      tracks     |-> FALSE,
      descTracks |-> FALSE,     \* the last local description made carries tracks
      ld         |-> FALSE,     \* a local description was set: ICE is running
      neg        |-> "no",
      covered    |-> TRUE,
      ice        |-> "new",
      conn       |-> "new",
      chain      |-> << >> ]

remoteDescription(pc) == pc.pendRemote \/ pc.curRemote

\* An entry of the operations chain: the operation, and the continuation
\* (k, with the signal s being handled and the rest of a drain) awaiting it.
Op(op, n, k, rest, s) == [op |-> op, n |-> n, k |-> k, rest |-> rest, s |-> s]

\* negotiation-needed flag when the signaling state returns to stable
NegAfterAnswer(pc) == IF pc.covered THEN "no" ELSE "pending"
NegAfterRollback(pc) == IF pc.neg = "no" THEN "no" ELSE "pending"

\* The effect of the operation at the head of the chain on the connection,
\* and how its promise settles.  good: the browser's choice for a candidate.
ExecOp(pc, e, good) ==
    CASE e.op = "createOffer" ->
           IF pc.sig \notin {"stable", "have-local-offer"}
           THEN [pc |-> pc, res |-> "InvalidStateError"]
           ELSE IF good
           THEN [pc |-> [pc EXCEPT !.covered = TRUE, !.descTracks = pc.tracks], res |-> "ok"]
           ELSE [pc |-> pc, res |-> "OperationError"]
      [] e.op = "setLocalOffer" ->
           IF pc.sig \notin {"stable", "have-local-offer"}
           THEN [pc |-> pc, res |-> "InvalidStateError"]
           ELSE IF good
           THEN [pc |-> [pc EXCEPT !.sig = "have-local-offer", !.ld = TRUE], res |-> "ok"]
           ELSE [pc |-> pc, res |-> "OperationError"]
      [] e.op = "rollback" ->
           IF pc.sig = "have-local-offer"
           THEN [pc |-> [pc EXCEPT !.sig = "stable", !.neg = NegAfterRollback(pc)],
                 res |-> "ok"]
           ELSE IF pc.sig = "have-remote-offer"
           THEN [pc |-> [pc EXCEPT !.sig = "stable", !.pendRemote = FALSE,
                                   !.neg = NegAfterRollback(pc)],
                 res |-> "ok"]
           ELSE [pc |-> pc, res |-> "InvalidStateError"]
      [] e.op = "setRemoteOffer" ->
           \* in have-local-offer the local offer is rolled back implicitly
           [pc |-> [pc EXCEPT !.sig = "have-remote-offer", !.pendRemote = TRUE],
            res |-> "ok"]
      [] e.op = "setRemoteAnswer" ->
           IF pc.sig = "have-local-offer"
           THEN [pc |-> [pc EXCEPT !.sig = "stable", !.curRemote = TRUE,
                                   !.pendRemote = FALSE, !.neg = NegAfterAnswer(pc)],
                 res |-> "ok"]
           ELSE [pc |-> pc, res |-> "InvalidStateError"]
      [] e.op = "createAnswer" ->
           IF pc.sig = "have-remote-offer"
           THEN [pc |-> [pc EXCEPT !.covered = TRUE, !.descTracks = pc.tracks], res |-> "ok"]
           ELSE [pc |-> pc, res |-> "InvalidStateError"]
      [] e.op = "setLocalAnswer" ->
           IF pc.sig = "have-remote-offer"
           THEN [pc |-> [pc EXCEPT !.sig = "stable", !.curRemote = TRUE, !.ld = TRUE,
                                   !.pendRemote = FALSE, !.neg = NegAfterAnswer(pc)],
                 res |-> "ok"]
           ELSE [pc |-> pc, res |-> "InvalidStateError"]
      [] e.op = "addIce" ->
           IF ~remoteDescription(pc)
           THEN [pc |-> pc, res |-> "InvalidStateError"]
           ELSE IF good THEN [pc |-> pc, res |-> "ok"]
           ELSE [pc |-> pc, res |-> "OperationError"]

\* close(): the connection is closed for good and the promises of the
\* operations still on its chain never settle.
ClosePC(pc) ==
    [pc EXCEPT !.sig = "closed", !.ice = "closed", !.conn = "closed", !.chain = << >>]

\* addTrack for every track of the stream (after removing old senders)
AddTracks(pc) ==
    [pc EXCEPT !.tracks = TRUE, !.covered = FALSE,
               !.neg = IF pc.neg = "no" THEN "pending" ELSE pc.neg]

\* restartIce()
RestartIce(pc) ==
    [pc EXCEPT !.covered = FALSE,
               !.neg = IF pc.neg = "no" THEN "pending" ELSE pc.neg]

(***************************************************************************)
(* The coordinator: the fields of class WebRTCService, the asynchronous    *)
(* work it has pending outside the peer connection (timers, the delay and  *)
(* the re-subscription of a reconnection), and what its caller observed.   *)
(***************************************************************************)
NewService(role) ==
    [ userRole             |-> role,
      pc                   |-> NewPeerConnection,
      localStream          |-> FALSE,
      remoteStream         |-> FALSE,
      pendingCandidates    |-> << >>,
      hasRemoteDescription |-> FALSE,
      connectionTimeout    |-> FALSE,
      reconnectAttempts    |-> 0,
      channel              |-> "joining",
      leaked               |-> 0,
      orphans              |-> 0,     \* connections replaced while not closed
      remoteUserJoined     |-> FALSE,
      callInProgress       |-> FALSE,
      isNegotiating        |-> FALSE,
      canCreateOffer       |-> TRUE,
      offerSeq             |-> 0,
      tNeg                 |-> 0,     \* pending 1000 ms timers of createAndSendOffer
      tCan                 |-> 0,     \* pending 3000 ms timers of onnegotiationneeded
      delaying             |-> 0,     \* handleConnectionFailure calls in their delay
      resub                |-> 0,     \* ... awaiting setupSignalingChannelListener
      stops                |-> 0,     \* times the local tracks were stopped
      nulls                |-> 0,     \* onRemoteStream(null) calls
      locals               |-> 0,     \* onLocalStream calls
      gotStream            |-> FALSE, \* onRemoteStream(stream) was called
      applied              |-> << >>, \* candidates handed to addIceCandidate, in order
      noRemote             |-> FALSE, \* one was applied with no remote description
      drainFlagOff         |-> FALSE, \* a drain began with hasRemoteDescription false
      qReset               |-> FALSE, \* queued candidates were dropped without a drain
      stale                |-> {},    \* queued candidates older than the connection
      nowDrain             |-> FALSE, \* the current step began a drain
      tracksLive           |-> FALSE, \* readyState of the tracks of localStream
      exhausted            |-> 0,     \* failures handled with the attempts used up
      retryAfterExhausted  |-> FALSE, \* a reconnection began after such a failure
      cleanedInFlight      |-> FALSE, \* cleanup() found an operation in flight
      regained             |-> FALSE, \* connected again after a reconnection
      accepted             |-> {},    \* remote offers set as remote description
      answered             |-> {},    \* own offers whose answer was set
      collided             |-> {},    \* pairs of offers seen in flight together
      readyOffers          |-> {},    \* remote offers delivered after startCall()
      out                  |-> << >>, \* envelopes sent in the current step
      nowNull              |-> 0,     \* onRemoteStream(null) calls in the current step
      nowUnsub             |-> "none", \* outcome of channel.unsubscribe() in the current step
      threw                |-> FALSE  \* the current step threw to its caller
    ]

sendSignalData(c, s) == [c EXCEPT !.out = Append(@, s)]

JoinSignal(c) == Signal("join", 0, FALSE, c.userRole, "*", c.userRole)

onRemoteStreamNull(c) == [c EXCEPT !.nulls = Inc(@), !.nowNull = @ + 1]

onRemoteStreamSet(c) == [c EXCEPT !.remoteStream = TRUE, !.gotStream = TRUE]

clearConnectionTimeout(c) == [c EXCEPT !.connectionTimeout = FALSE]

setConnectionTimeout(c) == [c EXCEPT !.connectionTimeout = TRUE]

attemptsUsedUp_Never(c) == FALSE

\* handleConnectionFailure gives up when the attempts are used up
attemptsUsedUp(c) == c.reconnectAttempts >= maxReconnectAttempts

\* The synchronous part of handleConnectionFailure, up to its delay.
handleConnectionFailure(c) ==
    IF attemptsUsedUp(c)
    THEN onRemoteStreamNull([c EXCEPT !.exhausted = Inc(@)])
    ELSE [c EXCEPT !.reconnectAttempts = @ + 1,
                   !.retryAfterExhausted = @ \/ c.exhausted > 0,
                   !.pc = ClosePC(@),
                   !.delaying = Inc(@)]

RECURSIVE CallOp(_, _), Resume(_, _, _), processPendingCandidates(_, _, _)

\* the continuations of processPendingCandidates, by its caller: the offer
\* case, the answer case, the signalingstatechange handler
Drains == {"drain_of", "drain_an", "drain_ev"}

restOfDrain_StopOnError(e, res) == IF res = "ok" THEN e.rest ELSE << >>

\* the candidates the loop of processPendingCandidates still goes through
\* after one has settled: the catch is inside the loop
restOfDrain(e, res) == e.rest

answerTo_Everyone(s) == "*"

\* the recipient of an Answer: the sender of the Offer it answers
answerTo(s) == s.from

canProcessCandidates_NoCheck(c) == TRUE

\* processPendingCandidates goes on only with a remote description
canProcessCandidates(c) == remoteDescription(c.pc)

ignoreOffer_Never(c) == FALSE

ignoreOffer_StableOnly(c) ==
    c.userRole = "interviewer" /\ c.pc.sig # "stable"

\* the offer case of handleSignalData: the interviewer ignores an Offer while
\* it negotiates or is not in the stable state
ignoreOffer(c) ==
    c.userRole = "interviewer" /\ (c.isNegotiating \/ c.pc.sig # "stable")

answerExpected_Always(c) == TRUE

\* the answer case of handleSignalData applies the Answer only in this phase
answerExpected(c) == c.pc.sig = "have-local-offer"

\* Calling an operation of the peer connection and awaiting it: on a closed
\* connection the promise is rejected at once, otherwise the operation joins
\* the chain.
CallOp(c, e) ==
    IF c.pc.sig = "closed"
    THEN Resume(c, e, "InvalidStateError")
    ELSE [c EXCEPT !.pc.chain = Append(@, e)]

\* End of a drain: the caller that awaited it goes on.
DrainDone(c, k, s) ==
    IF k = "drain_of"
    THEN CallOp(c, Op("createAnswer", 0, "of2", << >>, s))
    ELSE c

\* The loop of processPendingCandidates over its copy of the queue.
DrainLoop(c, k, rest, s) ==
    IF rest = << >>
    THEN DrainDone(c, k, s)
    ELSE CallOp(c, Op("addIce", Head(rest), k, Tail(rest), s))

processPendingCandidates(c, k, s) ==
    IF Len(c.pendingCandidates) = 0 THEN DrainDone(c, k, s)
    ELSE IF ~canProcessCandidates(c) THEN DrainDone(c, k, s)
    ELSE DrainLoop([c EXCEPT !.pendingCandidates = << >>,
                             !.nowDrain = TRUE,
                             !.drainFlagOff = @ \/ ~c.hasRemoteDescription],
                   k, c.pendingCandidates, s)

\* catch of handleSignalData
SignalCatch(c, res) ==
    IF res # "OperationError" THEN handleConnectionFailure(c) ELSE c

\* an envelope of the other role whose data is missing
Malformed(s) == s.n = 0

\* setRemoteDescription(new RTCSessionDescription(signal.data)): with the
\* data missing the constructor throws TypeError, which the catch of
\* handleSignalData receives
setRemoteDescription(c, op, k, s) ==
    IF Malformed(s)
    THEN SignalCatch(c, "TypeError")
    ELSE CallOp(c, Op(op, s.n, k, << >>, s))

\* What runs when the promise of operation e settles with res: the rest of
\* the async function that awaited it, up to its next await.
Resume(c, e, res) ==
    CASE e.k = "nn1" ->      \* onnegotiationneeded, after createOffer
           IF res = "ok" /\ c.pc.sig = "stable"
           THEN CallOp([c EXCEPT !.offerSeq = @ + 1],
                       Op("setLocalOffer", c.offerSeq + 1, "nn2", << >>, NoSignal))
           ELSE [c EXCEPT !.tCan = Arm(@)]
      [] e.k = "nn2" ->      \* onnegotiationneeded, after setLocalDescription
           IF res = "ok"
           THEN [sendSignalData(c, Signal("offer", e.n, c.pc.descTracks, c.userRole, "*", c.userRole))
                   EXCEPT !.tCan = Arm(@)]
           ELSE [c EXCEPT !.tCan = Arm(@)]
      [] e.k = "cs1" ->      \* createAndSendOffer, after createOffer
           IF res = "ok"
           THEN CallOp([c EXCEPT !.offerSeq = @ + 1],
                       Op("setLocalOffer", c.offerSeq + 1, "cs2", << >>, NoSignal))
           ELSE [c EXCEPT !.tNeg = Arm(@)]
      [] e.k = "cs2" ->      \* createAndSendOffer, after setLocalDescription
           IF res = "ok"
           THEN [sendSignalData(c, Signal("offer", e.n, c.pc.descTracks, c.userRole, "*", c.userRole))
                   EXCEPT !.tNeg = Arm(@)]
           ELSE [c EXCEPT !.tNeg = Arm(@)]
      [] e.k = "of0" ->      \* offer, after the rollback (its failure is swallowed)
           setRemoteDescription(c, "setRemoteOffer", "of1", e.s)
      [] e.k = "of1" ->      \* offer, after setRemoteDescription
           IF res = "ok"
           THEN processPendingCandidates([c EXCEPT !.hasRemoteDescription = TRUE],
                                         "drain_of", e.s)
           ELSE SignalCatch(c, res)
      [] e.k = "of2" ->      \* offer, after createAnswer
           IF res = "ok"
           THEN CallOp(c, Op("setLocalAnswer", e.s.n, "of3", << >>, e.s))
           ELSE SignalCatch(c, res)
      [] e.k = "of3" ->      \* offer, after setLocalDescription(answer)
           IF res = "ok"
           THEN sendSignalData(c, Signal("answer", e.s.n, c.pc.descTracks, c.userRole,
                                         answerTo(e.s), c.userRole))
           ELSE SignalCatch(c, res)
      [] e.k = "an1" ->      \* answer, after setRemoteDescription
           IF res = "ok"
           THEN processPendingCandidates([c EXCEPT !.hasRemoteDescription = TRUE],
                                         "drain_an", e.s)
           ELSE SignalCatch(c, res)
      [] e.k = "ice" ->      \* ice-candidate, after addIceCandidate
           IF res = "InvalidStateError"
           THEN [c EXCEPT !.pendingCandidates = Append(@, e.n)]
           ELSE c
      [] e.k \in Drains ->
           \* processPendingCandidates, after addIceCandidate(candidate)
           IF res \notin {"ok", "OperationError"}
           THEN DrainLoop([c EXCEPT !.pendingCandidates = Append(@, e.n)],
                          e.k, restOfDrain(e, res), e.s)
           ELSE DrainLoop(c, e.k, restOfDrain(e, res), e.s)

onsignalingstatechange(c) ==
    IF c.pc.sig = "stable"
    THEN [processPendingCandidates([c EXCEPT !.isNegotiating = FALSE], "drain_ev", NoSignal)
            EXCEPT !.canCreateOffer = TRUE]
    ELSE c

\* The synchronous part of the negotiationneeded handler.
onnegotiationneeded(c) ==
    IF c.isNegotiating \/ ~c.canCreateOffer THEN c
    ELSE LET c1 == [c EXCEPT !.isNegotiating = TRUE, !.canCreateOffer = FALSE]
         IN  IF c1.pc.sig # "stable"
             THEN [c1 EXCEPT !.tCan = Arm(@)]
             ELSE CallOp(c1, Op("createOffer", 0, "nn1", << >>, NoSignal))

createAndSendOffer(c) ==
    IF c.isNegotiating THEN c
    ELSE LET c1 == [c EXCEPT !.isNegotiating = TRUE]
         IN  IF c1.pc.sig # "stable"
             THEN [c1 EXCEPT !.tNeg = Arm(@)]
             ELSE CallOp(c1, Op("createOffer", 0, "cs1", << >>, NoSignal))

handleRemoteJoin(c, s) ==
    LET c1 == [c EXCEPT !.remoteUserJoined = TRUE]
    IN  IF c1.userRole = "interviewer" /\ c1.localStream
        THEN createAndSendOffer(c1)
        ELSE c1

\* an Offer finds the coordinator negotiating or not in the stable state
offerCollision(c) ==
    c.pc.sig # "closed" /\ (c.isNegotiating \/ c.pc.sig # "stable")

\* the Offer that is not ignored, noted if it arrived during a collision
acceptOffer(c, s) ==
    LET s0 == [s EXCEPT !.col = offerCollision(c)]
    IN  IF c.pc.sig = "have-remote-offer"
        THEN CallOp(c, Op("rollback", 0, "of0", << >>, s0))
        ELSE setRemoteDescription(c, "setRemoteOffer", "of1", s0)

\* The synchronous part of handleSignalData.
handleSignalData(c, s) ==
    CASE s.type = "offer" ->
           IF ignoreOffer(c)
           THEN c
           ELSE acceptOffer(c, s)
      [] s.type = "answer" ->
           IF answerExpected(c)
           THEN setRemoteDescription(c, "setRemoteAnswer", "an1", s)
           ELSE c
      [] s.type = "ice-candidate" ->
           IF Malformed(s) THEN c            \* if (!signal.data) return
           ELSE IF c.hasRemoteDescription /\ remoteDescription(c.pc)
           THEN CallOp(c, Op("addIce", s.n, "ice", << >>, s))
           ELSE [c EXCEPT !.pendingCandidates = Append(@, s.n)]
      [] OTHER -> c

fromOtherRole_Anyone(c, s) == TRUE

\* the listener processes only the envelopes of the other role
fromOtherRole(c, s) ==
    \/ (c.userRole = "interviewer" /\ s.role = "candidate")
    \/ (c.userRole = "candidate" /\ s.role = "interviewer")

\* The broadcast listener of setupSignalingChannelListener.
onSignal(c, s) ==
    IF fromOtherRole(c, s)
    THEN IF s.type = "join" THEN handleRemoteJoin(c, s) ELSE handleSignalData(c, s)
    ELSE c

startsOffer_AnyRole(c) == c.remoteUserJoined

\* startCall goes on to createAndSendOffer only as the interviewer, with the
\* Join of the candidate received
startsOffer(c) == c.userRole = "interviewer" /\ c.remoteUserJoined

attachFails_Never(c) == FALSE

\* addTrack throws InvalidStateError on a closed connection
attachFails(c) == c.pc.sig = "closed"

startCall(c) ==
    LET c1 == [c EXCEPT !.isNegotiating = FALSE,
                        !.canCreateOffer = TRUE,
                        !.hasRemoteDescription = FALSE,
                        !.pendingCandidates = << >>,
                        !.qReset = @ \/ c.pendingCandidates # << >>,
                        !.stale = {},
                        !.localStream = TRUE,
                        !.locals = Inc(@)]
    IN  IF attachFails(c1)
        THEN [c1 EXCEPT !.threw = TRUE]      \* caught, logged and thrown again
        ELSE LET c2 == sendSignalData([c1 EXCEPT !.pc = AddTracks(@)], JoinSignal(c1))
             IN  IF startsOffer(c2)
                 THEN createAndSendOffer(c2)
                 ELSE c2

UnsubscribeResults == {"ok", "error"}

unsubscribe_Throws(c, u) ==
    IF u = "ok"
    THEN [c EXCEPT !.channel = "left", !.nowUnsub = u]
    ELSE [c EXCEPT !.nowUnsub = u, !.threw = TRUE]

\* this.channel.unsubscribe() as cleanup() calls it: the promise it returns
\* is not awaited, so its outcome u (a failure included) is dropped
unsubscribe(c, u) == [c EXCEPT !.channel = "left", !.nowUnsub = u]

stopTracks_Unguarded(c) ==
    IF c.localStream
    THEN IF c.tracksLive THEN [c EXCEPT !.stops = Inc(@), !.tracksLive = FALSE] ELSE c
    ELSE [c EXCEPT !.threw = TRUE]       \* getTracks() of null

stopTracks_EveryCall(c) ==
    IF c.localStream THEN [c EXCEPT !.stops = Inc(@), !.tracksLive = FALSE] ELSE c

\* track.stop() for the tracks of localStream; stopping an ended track does
\* nothing
stopTracks(c) ==
    IF c.localStream /\ c.tracksLive
    THEN [c EXCEPT !.stops = Inc(@), !.tracksLive = FALSE]
    ELSE c

\* cleanup(); u is the outcome of the unsubscribe calls it makes (on
\* this.channel, then once more through the closures of subscriptions).  A
\* statement that throws ends the call there.
cleanup(c, u) ==
    LET c1 == clearConnectionTimeout([c EXCEPT !.cleanedInFlight = @ \/ c.pc.chain # << >>])
        c2 == stopTracks(c1)
        c3 == unsubscribe([c2 EXCEPT !.pc = ClosePC(@)], u)
        c4 == IF c3.threw THEN c3 ELSE unsubscribe(c3, u)
        c5 == onRemoteStreamNull(c4)
    IN  IF c2.threw THEN c2
        ELSE IF c4.threw THEN c4
        ELSE [c5 EXCEPT !.remoteUserJoined = FALSE,
                        !.callInProgress = FALSE,
                        !.isNegotiating = FALSE,
                        !.hasRemoteDescription = FALSE,
                        !.pendingCandidates = << >>,
                        !.qReset = @ \/ c.pendingCandidates # << >>,
                        !.stale = {}]

(***************************************************************************)
(* One settled operation of the chain: its effect on the connection, the   *)
(* events the connection fires (signalingstatechange, track), then the     *)
(* continuation of the function that awaited it.                           *)
(***************************************************************************)
ontrack_NoStream(c, e, res) == c

\* the track event of a remote description that carries tracks
ontrack(c, e, res) ==
    IF res = "ok" /\ e.op \in {"setRemoteOffer", "setRemoteAnswer"} /\ e.s.tr
    THEN onRemoteStreamSet(c)
    ELSE c

LogCandidate(c, e, res) ==
    IF e.op # "addIce" THEN c
    ELSE [c EXCEPT !.applied = IF res = "ok" THEN Append(@, e.n) ELSE @,
                   !.noRemote = @ \/ (res = "ok" /\ ~remoteDescription(c.pc))]

LogDescription(c, e, res, pair) ==
    IF ~pair \/ res # "ok" THEN c
    ELSE IF e.op = "setRemoteOffer" THEN [c EXCEPT !.accepted = @ \cup {e.n}]
    ELSE IF e.op = "setRemoteAnswer" THEN [c EXCEPT !.answered = @ \cup {e.n}]
    ELSE c

CompleteOp(c, good) ==
    LET e  == Head(c.pc.chain)
        x  == ExecOp(c.pc, e, good)
        c0 == LogCandidate([c EXCEPT !.pc = [x.pc EXCEPT !.chain = Tail(c.pc.chain)]],
                           e, x.res)
        c1 == LogDescription(c0, e, x.res, bud.pair)
        c2 == IF c1.pc.sig # c.pc.sig THEN onsignalingstatechange(c1) ELSE c1
        c3 == ontrack(c2, e, x.res)
    IN  Resume(c3, e, x.res)

attemptsOnConnected_Kept(c) == c.reconnectAttempts

\* reconnectAttempts once the ICE transport is connected or completed
attemptsOnConnected(c) == 0

oniceconnectionstatechange(c) ==
    CASE c.pc.ice \in {"connected", "completed"} ->
           [clearConnectionTimeout(c) EXCEPT !.reconnectAttempts = attemptsOnConnected(c),
                                             !.regained = @ \/ c.reconnectAttempts > 0]
      [] c.pc.ice = "failed" -> [c EXCEPT !.pc = RestartIce(@)]
      [] c.pc.ice = "disconnected" -> setConnectionTimeout(c)
      [] OTHER -> c

onconnectionstatechange(c) ==
    CASE c.pc.conn = "connected" ->
           clearConnectionTimeout([c EXCEPT !.callInProgress = TRUE])
      [] c.pc.conn = "failed" -> handleConnectionFailure(c)
      [] OTHER -> c

\* the callback armed by setConnectionTimeout
connectionTimeoutCallback(c) ==
    LET c1 == [c EXCEPT !.connectionTimeout = FALSE]
    IN  IF c1.pc.ice \in {"disconnected", "failed"}
        THEN handleConnectionFailure(c1)
        ELSE c1

\* handleConnectionFailure after its delay: initializePeerConnection, then
\* setupSignalingChannelListener up to its await of channel.unsubscribe()
reconnectAfterDelay(c) ==
    [c EXCEPT !.delaying = @ - 1,
              !.orphans = IF c.pc.sig # "closed" THEN Inc(@) ELSE @,
              !.pc = NewPeerConnection,
              !.stale = {c.pendingCandidates[i] : i \in 1..Len(c.pendingCandidates)},
              !.channel = "left",
              !.resub = Inc(@)]

\* ... and from there: a new channel is subscribed, then startCall
reconnectAfterUnsubscribe(c) ==
    LET c1 == [c EXCEPT !.resub = @ - 1,
                        !.leaked = IF c.channel # "left" THEN Inc(@) ELSE @,
                        !.channel = "joining"]
    IN  IF c1.localStream THEN startCall(c1) ELSE c1

\* the subscribe callback with status SUBSCRIBED
onSubscribed(c) == sendSignalData([c EXCEPT !.channel = "subscribed"], JoinSignal(c))

(***************************************************************************)
(* The state machine.  bud holds what the environment may still do (left)  *)
(* and the numbers it has handed out; obs what the last step sent to the   *)
(* relay, how often it called onRemoteStream(null) and whether it threw.   *)
(***************************************************************************)
Alive == IF bud.pair THEN Roles ELSE {bud.solo}

Subscribed(c) == c.channel = "subscribed" \/ c.leaked > 0

Settled(c) ==
    [c EXCEPT !.out = << >>, !.nowNull = 0, !.threw = FALSE, !.nowDrain = FALSE,
              !.nowUnsub = "none"]

Observed(ev, r, d) ==
    [ev |-> ev, r |-> r, again |-> obs.ev = ev, out |-> d.out, nulls |-> d.nowNull,
     threw |-> d.threw, drained |-> d.nowDrain, unsub |-> d.nowUnsub]

\* In a pair: coordinator c has a local offer set and that offer is in the
\* relay's queue q, on its way to the other coordinator.
OfferOut(c, q) ==
    /\ c.pc.sig = "have-local-offer"
    /\ \E i \in 1..Len(q) : q[i].type = "offer" /\ q[i].n = c.offerSeq

\* records the offers that are in flight at the same time, as
\* <<interviewer's offer, candidate's offer>>
Mark(r, d, other, qr, qo) ==
    IF OfferOut(d, qo) /\ OfferOut(other, qr)
    THEN [d EXCEPT !.collided = @ \cup {IF r = "interviewer"
                                         THEN <<d.offerSeq, other.offerSeq>>
                                         ELSE <<other.offerSeq, d.offerSeq>>}]
    ELSE d

Step(r, ev, d) ==
    LET relayed == IF bud.pair /\ Subscribed(co[Other(r)])
                   THEN [net EXCEPT ![Other(r)] = @ \o d.out]
                   ELSE net
    IN  /\ co' = [co EXCEPT ![r] = IF bud.pair
                                   THEN Mark(r, Settled(d), co[Other(r)],
                                             relayed[r], relayed[Other(r)])
                                   ELSE Settled(d)]
        /\ obs' = Observed(ev, r, d)
        /\ net' = relayed

Spend == bud' = [bud EXCEPT !.left = @ - 1]

Budget(pair, solo, left) ==
    [pair |-> pair, solo |-> solo, left |-> left, offers |-> 0, cands |-> 0,
     starts |-> [r \in Roles |-> 0], cleans |-> 0]

InitWith(B) ==
    /\ bud \in B
    /\ co = [r \in Roles |-> NewService(r)]
    /\ net = [r \in Roles |-> << >>]
    /\ obs = [ev |-> "new", r |-> "none", again |-> FALSE, out |-> << >>, nulls |-> 0,
              threw |-> FALSE, drained |-> FALSE, unsub |-> "none"]

\* --- the environment of a single coordinator: envelopes of the other role
EnvJoin(r) ==
    /\ r \in Alive
    /\ ~bud.pair /\ Subscribed(co[r]) /\ bud.left > 0
    /\ Spend
    /\ Step(r, "join", onSignal(co[r], Signal("join", 0, FALSE, Other(r), "*", Other(r))))

EnvOffer(r) ==
    /\ r \in Alive
    /\ ~bud.pair /\ Subscribed(co[r]) /\ bud.left > 0
    /\ bud' = [bud EXCEPT !.left = @ - 1, !.offers = @ + 1]
    /\ Step(r, "offer", onSignal(co[r], Signal("offer", bud.offers + 1, TRUE, Other(r), "*", Other(r))))

EnvAnswer(r) ==
    /\ r \in Alive
    /\ ~bud.pair /\ Subscribed(co[r]) /\ bud.left > 0
    /\ Spend
    /\ Step(r, "answer", onSignal(co[r], Signal("answer", co[r].offerSeq, TRUE, Other(r), r, Other(r))))

EnvIce(r) ==
    /\ r \in Alive
    /\ ~bud.pair /\ Subscribed(co[r]) /\ bud.left > 0
    /\ bud' = [bud EXCEPT !.left = @ - 1, !.cands = @ + 1]
    /\ Step(r, "ice-candidate",
            onSignal(co[r],
                        Signal("ice-candidate", bud.cands + 1, FALSE, Other(r), "*", Other(r))))

\* an envelope of the other role with an unknown type or without its data
EnvMalformed(r) ==
    /\ r \in Alive
    /\ ~bud.pair /\ Subscribed(co[r]) /\ bud.left > 0
    /\ Spend
    /\ \E t \in {"offer", "answer", "ice-candidate", "unknown"} :
          Step(r, "malformed", onSignal(co[r], Signal(t, 0, FALSE, Other(r), "*", Other(r))))

OwnKinds == {"offer", "answer", "ice-candidate", "join"}

OwnEvent(t) ==
    CASE t = "offer" -> "own offer"
      [] t = "answer" -> "own answer"
      [] t = "ice-candidate" -> "own ice-candidate"
      [] t = "join" -> "own join"

\* the relay hands the coordinator an envelope that declares its own role
EnvOwn(r) ==
    /\ r \in Alive
    /\ ~bud.pair /\ Subscribed(co[r]) /\ bud.left > 0
    /\ Spend
    /\ \E t \in OwnKinds :
          Step(r, OwnEvent(t), onSignal(co[r], Signal(t, 1, TRUE, r, "*", r)))

\* --- the relay between two coordinators
Deliver(r) ==
    /\ r \in Alive
    /\ bud.pair /\ net[r] # << >> /\ Subscribed(co[r]) /\ bud.left > 0
    /\ Spend
    /\ LET s == Head(net[r])
           d == onSignal(co[r], s)
       IN  /\ co' = [co EXCEPT ![r] = [Settled(d) EXCEPT !.readyOffers =
                                          IF s.type = "offer" /\ co[r].localStream
                                          THEN @ \cup {s.n} ELSE @]]
           /\ obs' = Observed(Head(net[r]).type, r, d)
           /\ net' = [q \in Roles |->
                        IF q = r THEN Tail(net[r])
                        ELSE IF Subscribed(co[q]) THEN net[q] \o d.out ELSE net[q]]

\* the relay loses a Join or an ICE candidate
Drop(r) ==
    /\ r \in Alive
    /\ bud.pair /\ net[r] # << >>
    /\ Head(net[r]).type \in {"join", "ice-candidate"}
    /\ net' = [net EXCEPT ![r] = Tail(@)]
    /\ obs' = [obs EXCEPT !.ev = "drop", !.r = r, !.again = obs.ev = "drop", !.out = << >>,
                          !.nulls = 0, !.threw = FALSE, !.drained = FALSE, !.unsub = "none"]
    /\ UNCHANGED <<co, bud>>

\* --- the peer connection
OpSettles(r) ==
    /\ r \in Alive
    /\ co[r].pc.chain # << >>
    /\ bud' = bud
    /\ Step(r, Head(co[r].pc.chain).op, CompleteOp(co[r], TRUE))

IceCandidateFails(r) ==
    /\ r \in Alive
    /\ co[r].pc.chain # << >>
    /\ Head(co[r].pc.chain).op = "addIce"
    /\ remoteDescription(co[r].pc)
    /\ bud.left > 0
    /\ Spend
    /\ Step(r, "addIce", CompleteOp(co[r], FALSE))

\* createOffer or setLocalDescription(offer) rejects on a connection whose
\* state allows the operation
OfferFails(r) ==
    /\ r \in Alive
    /\ co[r].pc.chain # << >>
    /\ Head(co[r].pc.chain).op \in {"createOffer", "setLocalOffer"}
    /\ co[r].pc.sig \in {"stable", "have-local-offer"}
    /\ bud.left > 0
    /\ Spend
    /\ Step(r, Head(co[r].pc.chain).op, CompleteOp(co[r], FALSE))

NegotiationNeeded(r) ==
    /\ r \in Alive
    /\ co[r].pc.neg = "pending" /\ co[r].pc.sig = "stable" /\ co[r].pc.chain = << >>
    /\ bud' = bud
    /\ Step(r, "negotiationneeded", onnegotiationneeded([co[r] EXCEPT !.pc.neg = "fired"]))

IceConnectionState(r, st) ==
    /\ r \in Alive
    /\ co[r].pc.sig # "closed" /\ co[r].pc.ld /\ co[r].pc.ice # st /\ bud.left > 0
    /\ Spend
    /\ Step(r, "iceconnectionstate", oniceconnectionstatechange([co[r] EXCEPT !.pc.ice = st]))

\* connectionState is connected only when the ICE transport is connected
ConnectionState(r, st) ==
    /\ r \in Alive
    /\ co[r].pc.sig # "closed" /\ co[r].pc.ld /\ co[r].pc.conn # st /\ bud.left > 0
    /\ st = "connected" => co[r].pc.ice \in {"connected", "completed"}
    /\ Spend
    /\ Step(r, "connectionstate", onconnectionstatechange([co[r] EXCEPT !.pc.conn = st]))

\* --- timers and the other awaits of the coordinator
ConnectionTimeout(r) ==
    /\ r \in Alive
    /\ co[r].connectionTimeout
    /\ bud' = bud
    /\ Step(r, "connectionTimeout", connectionTimeoutCallback(co[r]))

NegotiatingTimer(r) ==
    /\ r \in Alive
    /\ co[r].tNeg > 0
    /\ bud' = bud
    /\ Step(r, "timer1000", [co[r] EXCEPT !.tNeg = @ - 1, !.isNegotiating = FALSE])

CanCreateOfferTimer(r) ==
    /\ r \in Alive
    /\ co[r].tCan > 0
    /\ bud' = bud
    /\ Step(r, "timer3000", [co[r] EXCEPT !.tCan = @ - 1, !.canCreateOffer = TRUE])

ReconnectDelay(r) ==
    /\ r \in Alive
    /\ co[r].delaying > 0
    /\ bud' = bud
    /\ Step(r, "reconnect", reconnectAfterDelay(co[r]))

Resubscribe(r) ==
    /\ r \in Alive
    /\ co[r].resub > 0
    /\ bud' = bud
    /\ Step(r, "resubscribe", reconnectAfterUnsubscribe(co[r]))

ChannelSubscribed(r) ==
    /\ r \in Alive
    /\ co[r].channel = "joining"
    /\ bud' = bud
    /\ Step(r, "SUBSCRIBED", onSubscribed(co[r]))

\* --- the caller
StartCall(r) ==
    /\ r \in Alive
    /\ bud.left > 0 /\ bud.starts[r] < MaxStart /\ bud.cleans = 0
    /\ bud' = [bud EXCEPT !.left = @ - 1, !.starts[r] = @ + 1]
    /\ Step(r, "startCall", startCall([co[r] EXCEPT !.tracksLive = TRUE]))

\* the call screen as it is written: new WebRTCService(...) and, in the same
\* task, startCall(stream)
OpenCall(r) ==
    /\ co[r] = NewService(r)
    /\ StartCall(r)

Cleanup(r) ==
    /\ r \in Alive
    /\ bud.left > 0 /\ bud.cleans < MaxCleanup
    /\ bud' = [bud EXCEPT !.left = @ - 1, !.cleans = @ + 1]
    /\ \E u \in UnsubscribeResults : Step(r, "cleanup", cleanup(co[r], u))

\* the steps the coordinator takes by itself or with its connection
Internal(r) ==
    \/ OpSettles(r)
    \/ NegotiationNeeded(r)
    \/ CanCreateOfferTimer(r)
    \/ ReconnectDelay(r)
    \/ Resubscribe(r)
    \/ ChannelSubscribed(r)
    \/ StartCall(r)

(***************************************************************************)
(* Spec: one coordinator of either role, its caller, and the envelopes of   *)
(* the other role, with no connectivity failure of the environment.        *)
(***************************************************************************)
Init == InitWith({Budget(FALSE, r, MaxEvents) : r \in Roles})

Next ==
    \E r \in Roles :
        \/ Internal(r)
        \/ NegotiatingTimer(r)
        \/ IceCandidateFails(r)
        \/ EnvJoin(r)
        \/ EnvOffer(r)
        \/ EnvAnswer(r)
        \/ EnvIce(r)
        \/ Cleanup(r)

Spec == Init /\ [][Next]_vars

(***************************************************************************)
(* SpecLife: one coordinator with the connectivity events of its peer      *)
(* connection, the Offers of the other role, and the caller's cleanup().   *)
(***************************************************************************)
LifeEvents == 6     \* environment events of a run of SpecLife

InitLife == InitWith({Budget(FALSE, r, LifeEvents) : r \in Roles})

NextLife ==
    \E r \in Roles :
        \/ Internal(r)
        \/ EnvOffer(r)
        \/ \E st \in {"connected", "disconnected", "failed"} : IceConnectionState(r, st)
        \/ \E st \in {"connected", "failed"} : ConnectionState(r, st)
        \/ ConnectionTimeout(r)
        \/ Cleanup(r)

SpecLife == InitLife /\ [][NextLife]_vars

(***************************************************************************)
(* SpecLink: as SpecLife, with an ICE transport that also reports          *)
(* completed, over shorter runs.                                           *)
(***************************************************************************)
LinkEvents == 5     \* environment events of a run of SpecLink

InitLink == InitWith({Budget(FALSE, r, LinkEvents) : r \in Roles})

NextLink ==
    \E r \in Roles :
        \/ Internal(r)
        \/ EnvOffer(r)
        \/ \E st \in {"connected", "completed", "disconnected", "failed"} :
              IceConnectionState(r, st)
        \/ \E st \in {"connected", "failed"} : ConnectionState(r, st)
        \/ ConnectionTimeout(r)
        \/ Cleanup(r)

SpecLink == InitLink /\ [][NextLink]_vars

(***************************************************************************)
(* SpecNoise: one coordinator and the envelopes of the other role, some of *)
(* them malformed, envelopes of its own role, and ICE candidates the       *)
(* connection cannot apply.                                                *)
(***************************************************************************)
NoiseEvents == 4    \* environment events of a run of SpecNoise

InitNoise == InitWith({Budget(FALSE, r, NoiseEvents) : r \in Roles})

NextNoise ==
    \E r \in Roles :
        \/ Internal(r)
        \/ IceCandidateFails(r)
        \/ EnvOffer(r)
        \/ EnvAnswer(r)
        \/ EnvIce(r)
        \/ EnvMalformed(r)
        \/ EnvOwn(r)

SpecNoise == InitNoise /\ [][NextNoise]_vars

(***************************************************************************)
(* SpecPair: an interviewer and a candidate on the same call, joined by    *)
(* the relay, which delivers the envelopes of each sender in order.        *)
(***************************************************************************)
PairEvents == 11    \* startCall() calls and deliveries of the relay in a run

InitPair == InitWith({Budget(TRUE, "interviewer", PairEvents)})

NextPair ==
    \E r \in Roles :
        \/ Internal(r)
        \/ NegotiatingTimer(r)
        \/ Deliver(r)

SpecPair == InitPair /\ [][NextPair]_vars

(***************************************************************************)
(* SpecRelay: the pair on a relay that may lose Joins, each coordinator    *)
(* started by the call screen when it is constructed.  What the browser    *)
(* and the relay do in the end is fair: operations settle, events and      *)
(* timers fire, a subscription completes, an envelope at the head of a     *)
(* queue is delivered.                                                     *)
(***************************************************************************)
RelayEvents == 10   \* startCall() calls and deliveries of the relay in a run

InitRelay == InitWith({Budget(TRUE, "interviewer", RelayEvents)})

NextRelay ==
    \E r \in Roles :
        \/ OpenCall(r)
        \/ ChannelSubscribed(r)
        \/ OpSettles(r)
        \/ NegotiationNeeded(r)
        \/ CanCreateOfferTimer(r)
        \/ NegotiatingTimer(r)
        \/ Deliver(r)
        \/ Drop(r)

FairRelay ==
    \A r \in Roles :
        /\ WF_vars(OpSettles(r))
        /\ WF_vars(NegotiationNeeded(r))
        /\ WF_vars(CanCreateOfferTimer(r))
        /\ WF_vars(NegotiatingTimer(r))
        /\ WF_vars(ChannelSubscribed(r))
        /\ WF_vars(Deliver(r))

SpecRelay == InitRelay /\ [][NextRelay]_vars /\ FairRelay

(***************************************************************************)
(* SpecCall: one coordinator as the call screen opens it (constructed and  *)
(* started at once), the envelopes of the other role, the reconnections    *)
(* its handlers start and the caller's cleanup().  What the browser does   *)
(* in the end is fair: operations settle, events and timers fire, the      *)
(* subscription completes, a reconnection goes on after its delay.         *)
(***************************************************************************)
CallEvents == 5     \* environment events of a run of SpecCall

InitCall == InitWith({Budget(FALSE, r, CallEvents) : r \in Roles})

NextCall ==
    \E r \in Roles :
        \/ OpenCall(r)
        \/ ChannelSubscribed(r)
        \/ OpSettles(r)
        \/ IceCandidateFails(r)
        \/ NegotiationNeeded(r)
        \/ CanCreateOfferTimer(r)
        \/ NegotiatingTimer(r)
        \/ ReconnectDelay(r)
        \/ Resubscribe(r)
        \/ EnvJoin(r)
        \/ EnvOffer(r)
        \/ EnvAnswer(r)
        \/ EnvIce(r)
        \/ Cleanup(r)

FairCall ==
    \A r \in Roles :
        /\ WF_vars(OpSettles(r))
        /\ WF_vars(NegotiationNeeded(r))
        /\ WF_vars(CanCreateOfferTimer(r))
        /\ WF_vars(NegotiatingTimer(r))
        /\ WF_vars(ReconnectDelay(r))
        /\ WF_vars(Resubscribe(r))
        /\ WF_vars(ChannelSubscribed(r))

SpecCall == InitCall /\ [][NextCall]_vars /\ FairCall

(***************************************************************************)
(* SpecOffer: one coordinator whose caller starts the call at once, the    *)
(* envelopes of the other role, and offers the connection fails to create  *)
(* or to set; what the code awaits or schedules eventually runs.           *)
(***************************************************************************)
OfferEvents == 4    \* environment events of a run of SpecOffer

InitOffer == InitWith({Budget(FALSE, r, OfferEvents) : r \in Roles})

NextOffer ==
    \E r \in Roles :
        \/ OpenCall(r)
        \/ ChannelSubscribed(r)
        \/ OpSettles(r)
        \/ OfferFails(r)
        \/ NegotiationNeeded(r)
        \/ CanCreateOfferTimer(r)
        \/ NegotiatingTimer(r)
        \/ ReconnectDelay(r)
        \/ Resubscribe(r)
        \/ EnvJoin(r)
        \/ EnvOffer(r)
        \/ EnvAnswer(r)

SpecOffer == InitOffer /\ [][NextOffer]_vars /\ FairCall

(***************************************************************************)
(* Properties of one coordinator under the envelopes of the other role     *)
(* (Spec).                                                                 *)
(***************************************************************************)
solo == co[bud.solo]

Increasing(q) == \A i, j \in 1..Len(q) : i < j => q[i] < q[j]

IsPrefix(p, q) == Len(p) <= Len(q) /\ SubSeq(q, 1, Len(p)) = p

\* C2: remote ICE candidates are applied to the connection in the order in
\* which they were received (candidates are numbered in order of receipt, so
\* the sequence of applied candidates is increasing).
C2_AppliedInOrderOfReceipt == Increasing(solo.applied)

C6_StaleAnswerDiscarded ==
    [][(obs'.ev = "answer" /\ solo.pc.sig # "have-local-offer")
          => (co' = co /\ obs'.out = << >>)]_vars

\* an Answer has just been received in the stable state, with a local offer
\* made and answered before
C6_Witness ==
    /\ obs.ev = "answer"
    /\ solo.pc.sig = "stable"
    /\ solo.offerSeq > 0
    /\ solo.hasRemoteDescription

\* the coordinator without the counters of its callback invocations
Fields(c) == [c EXCEPT !.nulls = 0, !.locals = 0]

TypesOf(q) == {q[i].type : i \in 1..Len(q)}

\* the offer-creating continuations of createAndSendOffer on the chain
OffersOf(q, ks) == {i \in 1..Len(q) : q[i].k \in ks}

\* C13: a startCall() whose attach succeeds (the caller's, or the one of a
\* reconnection) adds the tracks to the connection and sends a Join; as the
\* interviewer with the candidate's Join received it enters
\* createAndSendOffer in that same call (isNegotiating is set and, the
\* connection being stable, createOffer is called); as the candidate, or
\* with no Join received, it does not.
C13_StartCall ==
    [][((obs'.ev = "startCall" \/ (obs'.ev = "resubscribe" /\ solo.localStream))
         /\ ~obs'.threw)
          => /\ solo'.pc.tracks
             /\ "join" \in TypesOf(obs'.out)
             /\ IF solo.userRole = "interviewer" /\ solo.remoteUserJoined
                THEN /\ solo'.isNegotiating
                     /\ solo'.pc.sig = "stable"
                          => /\ solo'.pc.chain # << >>
                             /\ solo'.pc.chain[Len(solo'.pc.chain)].op = "createOffer"
                             /\ solo'.pc.chain[Len(solo'.pc.chain)].k = "cs1"
                ELSE /\ ~solo'.isNegotiating
                     /\ OffersOf(solo'.pc.chain, {"cs1", "cs2"}) = {}
                     /\ "offer" \notin TypesOf(obs'.out)]_vars

\* the interviewer's startCall() has just returned, the candidate's Join
\* having arrived before: a Join is sent and createOffer is called
C13_Witness ==
    /\ obs.ev = "startCall" /\ ~obs.threw
    /\ solo.userRole = "interviewer" /\ solo.remoteUserJoined
    /\ "join" \in TypesOf(obs.out)
    /\ solo.isNegotiating
    /\ OffersOf(solo.pc.chain, {"cs1"}) # {}

OfferSteps == {"nn1", "nn2", "cs1", "cs2"}

\* C16: at most one createOffer/setLocalDescription sequence of the
\* coordinator is in progress on its connection at any time.
C16_OneOfferSequence ==
    Cardinality(OffersOf(solo.pc.chain, OfferSteps)) <= 1

\* C20: the candidate never calls createOffer and never sends an Offer; and
\* a negotiationneeded event handled while isNegotiating is true calls no
\* operation of the connection and sends nothing.
C20_CandidateNeverOffers ==
    /\ [](solo.userRole = "candidate"
            => /\ OffersOf(solo.pc.chain, OfferSteps) = {}
               /\ "offer" \notin TypesOf(obs.out)
               /\ solo.offerSeq = 0)
    /\ [][(obs'.ev = "negotiationneeded" /\ solo.isNegotiating)
            => (solo'.pc.chain = solo.pc.chain /\ obs'.out = << >>)]_vars

\* C18: handling an envelope that is malformed, an Answer (late, duplicate
\* or not) or the result of applying an Answer or an ICE candidate throws
\* nothing, starts no reconnection, uses none of the reconnection attempts
\* and leaves the connection open for the next envelope.
C18_TransientErrorsSwallowed ==
    [][obs'.ev \in {"malformed", "answer", "setRemoteAnswer", "addIce"}
          => /\ ~obs'.threw
             /\ solo'.reconnectAttempts = solo.reconnectAttempts
             /\ solo'.delaying = solo.delaying
             /\ solo'.exhausted = solo.exhausted
             /\ solo.pc.sig # "closed" => solo'.pc.sig # "closed"]_vars

\* C11: cleanup() on a coordinator on which startCall() was never called
\* returns without throwing and invokes the remote-stream callback with null
\* (once).
C11_CleanupBeforeStart ==
    [][(obs'.ev = "cleanup" /\ solo.locals = 0)
          => (~obs'.threw /\ obs'.nulls = 1 /\ solo'.pc.sig = "closed")]_vars

\* cleanup() has just returned on a coordinator that was never started
C11_Witness ==
    /\ obs.ev = "cleanup" /\ ~obs.again
    /\ solo.locals = 0 /\ ~solo.localStream
    /\ obs.nulls = 1 /\ ~obs.threw

\* C12: when the unsubscribe of cleanup() fails, cleanup() still returns
\* without throwing, the remote-stream callback is invoked with null, and the
\* queue and the flags are reset.
C12_UnsubscribeFailureIgnored ==
    [][(obs'.ev = "cleanup" /\ obs'.unsub # "ok")
          => /\ ~obs'.threw
             /\ obs'.nulls = 1
             /\ solo'.pendingCandidates = << >>
             /\ ~solo'.hasRemoteDescription /\ ~solo'.isNegotiating
             /\ ~solo'.remoteUserJoined /\ ~solo'.callInProgress]_vars

\* a cleanup() whose unsubscribe failed has just dropped queued candidates
C12_Witness ==
    /\ obs.ev = "cleanup" /\ obs.unsub = "error"
    /\ obs.nulls = 1
    /\ solo.locals = 0 /\ solo.qReset
    /\ solo.pendingCandidates = << >>

\* C21: an Offer received by the interviewer while isNegotiating is true or
\* the signaling state is not stable changes no state of the coordinator (no
\* operation is called on the connection: no remote description, no
\* rollback; the signaling state and its local offer stay) and nothing is sent.
C21_InterviewerDiscardsOffer ==
    [][(/\ obs'.ev = "offer" /\ solo.userRole = "interviewer"
        /\ (solo.isNegotiating \/ solo.pc.sig # "stable"))
          => (co' = co /\ obs'.out = << >>)]_vars

\* the interviewer has just received an Offer with its own offer outstanding
C21_Witness ==
    /\ obs.ev = "offer" /\ solo.userRole = "interviewer"
    /\ solo.pc.sig = "have-local-offer" /\ solo.isNegotiating
    /\ solo.pc.chain = << >>
    /\ ~remoteDescription(solo.pc)

\* the operations on the chain that belong to the handling of an Offer
\* accepted during a collision
ClashOps(c) ==
    {i \in 1..Len(c.pc.chain) :
        c.pc.chain[i].s.type = "offer" /\ c.pc.chain[i].s.col}

\* C22: an Offer that reaches the candidate during a collision (isNegotiating
\* true, or the signaling state have-local-offer or have-remote-offer) is
\* accepted: its handling begins on the connection (a rollback or the
\* setRemoteDescription, which rolls a local offer back), no step of it
\* fails, it is not abandoned by a reconnection, and when its
\* setLocalDescription(answer) settles the Answer is sent and the candidate
\* is in the stable state with hasRemoteDescription true.
C22_CandidateAcceptsOffer ==
    [][solo.userRole = "candidate"
         => /\ (obs'.ev = "offer" /\ offerCollision(solo))
                 => /\ Len(solo'.pc.chain) = Len(solo.pc.chain) + 1
                    /\ solo'.pc.chain[Len(solo'.pc.chain)].op \in {"rollback", "setRemoteOffer"}
            /\ (solo.pc.chain # << >> /\ 1 \in ClashOps(solo)
                 /\ obs'.ev = Head(solo.pc.chain).op)
                 => /\ solo'.pc.sig # "closed"
                    /\ solo'.reconnectAttempts = solo.reconnectAttempts
                    /\ Head(solo.pc.chain).k = "of3"
                         => /\ solo'.pc.sig = "stable"
                            /\ solo'.hasRemoteDescription
                            /\ "answer" \in TypesOf(obs'.out)
            /\ (solo'.pc.sig = "closed" /\ solo.pc.sig # "closed" /\ obs'.ev # "cleanup")
                 => ClashOps(solo) = {}]_vars

\* the operations on the chain that belong to the handling of Offer n
OpsOfOffer(c, n) ==
    {i \in 1..Len(c.pc.chain) :
        c.pc.chain[i].s.type = "offer" /\ c.pc.chain[i].s.n = n}

\* the operation the step has called last
LastOp(c) == c.pc.chain[Len(c.pc.chain)]

\* C23: once the setRemoteDescription of a received Offer has settled, the
\* coordinator calls createAnswer (after the drain of the queue); when
\* createAnswer has succeeded it calls setLocalDescription(answer); when that
\* has succeeded, and only then, it sends one Answer, for that Offer and
\* addressed to the sender of that Offer, not to "*".  The handling of one
\* Offer is at one place at a time, so no Offer is answered twice.
C23_AnswerToSender ==
    /\ [](\A n \in 1..bud.offers : Cardinality(OpsOfOffer(solo, n)) <= 1)
    /\ [][LET e == Head(solo.pc.chain)
          IN  /\ (solo.pc.chain # << >> /\ obs'.ev = e.op /\ solo'.pc.sig # "closed")
                   => /\ (e.k = "of1" \/ (e.k = "drain_of" /\ e.rest = << >>))
                           => /\ solo'.pc.chain # << >>
                              /\ LastOp(solo').s = e.s
                              /\ \/ LastOp(solo').op = "createAnswer"
                                 \/ e.k = "of1" /\ LastOp(solo').k = "drain_of"
                      /\ (e.k = "of2" /\ solo.pc.sig = "have-remote-offer")
                           => /\ solo'.pc.chain # << >>
                              /\ LastOp(solo').op = "setLocalAnswer"
                              /\ LastOp(solo').s = e.s
                      /\ (e.k = "of3" /\ solo.pc.sig = "have-remote-offer")
                           => "answer" \in TypesOf(obs'.out)
              /\ "answer" \in TypesOf(obs'.out)
                   => /\ solo.pc.chain # << >> /\ obs'.ev = "setLocalAnswer"
                      /\ e.k = "of3" /\ solo.pc.sig = "have-remote-offer"
                      /\ solo'.pc.sig = "stable" /\ solo'.pc.ld
                      /\ Len(obs'.out) = 1
                      /\ obs'.out[1].n = e.s.n
                      /\ obs'.out[1].to = e.s.from
                      /\ obs'.out[1].to # "*"]_vars

\* the Answer to an Offer has just been sent to the Offer's sender
C23_Witness ==
    /\ obs.ev = "setLocalAnswer"
    /\ Len(obs.out) = 1 /\ obs.out[1].type = "answer"
    /\ obs.out[1].to = Other(bud.solo) /\ obs.out[1].n = bud.offers
    /\ solo.pc.sig = "stable" /\ remoteDescription(solo.pc)

OwnEvents == {OwnEvent(t) : t \in OwnKinds}

\* C24: an envelope that declares the coordinator's own role, of whatever
\* kind (Offer, Answer, ICE candidate, Join), changes no state of the
\* coordinator and causes nothing to be sent.
C24_OwnRoleIgnored ==
    [][obs'.ev \in OwnEvents => (co' = co /\ obs'.out = << >>)]_vars

\* an Offer of its own role has just reached a started candidate that is in
\* the stable state and would accept an Offer of the interviewer
C24_Witness ==
    /\ obs.ev = "own offer"
    /\ solo.userRole = "candidate" /\ solo.localStream
    /\ solo.pc.sig = "stable" /\ solo.pc.chain = << >>
    /\ ~solo.hasRemoteDescription

\* chain q holds the addIceCandidate of a drain of queue p: the first of p,
\* with the others to follow
DrainsQueue(q, p) ==
    \E i \in 1..Len(q) :
        /\ q[i].op = "addIce" /\ q[i].k \in Drains
        /\ <<q[i].n>> \o q[i].rest = p

\* C25: when an operation settles that completes a round (the signaling
\* state becomes stable) or sets a remote description (of an Offer or of an
\* Answer) and the connection has a remote description, a non-empty queue is
\* drained in that step: it is emptied and its first candidate is handed to
\* the connection, the others to follow in order.  And when a candidate of a
\* drain has settled, applied or failed, the next one of that drain is handed
\* over with the same ones to follow.
C25_DrainAndGoOn ==
    [][LET e == Head(solo.pc.chain)
       IN  (solo.pc.chain # << >> /\ obs'.ev = e.op /\ solo'.pc.sig # "closed")
             => /\ (/\ \/ (solo.pc.sig # "stable" /\ solo'.pc.sig = "stable")
                        \/ e.op = "setRemoteOffer"
                        \/ (e.op = "setRemoteAnswer" /\ solo.pc.sig = "have-local-offer")
                     /\ solo.pendingCandidates # << >>
                     /\ remoteDescription(solo'.pc))
                     => /\ obs'.drained
                        /\ solo'.pendingCandidates = << >>
                        /\ DrainsQueue(solo'.pc.chain, solo.pendingCandidates)
                /\ (e.op = "addIce" /\ e.k \in Drains /\ e.rest # << >>)
                     => DrainsQueue(solo'.pc.chain, e.rest)]_vars

\* the first candidate of a drain has failed and the second one is handed
\* to the connection
C25_Witness ==
    /\ obs.ev = "addIce"
    /\ remoteDescription(solo.pc)
    /\ solo.pc.chain # << >>
    /\ Head(solo.pc.chain).op = "addIce" /\ Head(solo.pc.chain).k \in Drains
    /\ Head(solo.pc.chain).n = 2
    /\ solo.applied = << >>
    /\ solo.pendingCandidates = << >>

(***************************************************************************)
(* Properties of one coordinator opened by the call screen (SpecCall).     *)
(***************************************************************************)
Queued(c, n) == \E i \in 1..Len(c.pendingCandidates) : c.pendingCandidates[i] = n

\* candidate n is handed to the connection: it is the candidate of an
\* addIceCandidate on the chain, or one of those a drain has yet to go through
Handed(c, n) ==
    \E i \in 1..Len(c.pc.chain) :
        /\ c.pc.chain[i].op = "addIce"
        /\ \/ c.pc.chain[i].n = n
           \/ \E j \in 1..Len(c.pc.chain[i].rest) : c.pc.chain[i].rest[j] = n

\* the connection is open and has a remote description
RemoteInPlace(c) == c.pc.sig # "closed" /\ remoteDescription(c.pc)

CandidateNumbers == 1..CallEvents

\* C26: no candidate is in the queue while the connection is open and has a
\* remote description (so none stays there forever); and a candidate that
\* was queued on the current connection leaves the queue only in a drain,
\* which hands it to the connection, or by cleanup().
C26_QueuedCandidatesHanded ==
    /\ [](\A n \in CandidateNumbers : Queued(solo, n) => ~RemoteInPlace(solo))
    /\ [][\A n \in CandidateNumbers :
            (/\ Queued(solo, n) /\ ~Queued(solo', n)
             /\ solo.pc.sig # "closed" /\ n \notin solo.stale)
              => \/ obs'.drained /\ Handed(solo', n)
                 \/ obs'.ev = "cleanup"]_vars

(***************************************************************************)
(* Properties of one coordinator under connectivity failures (SpecLife).   *)
(***************************************************************************)
SentTypes == {obs.out[i].type : i \in 1..Len(obs.out)}

\* C5: a failure handled with the attempts used up invokes the remote-stream
\* callback with null, and this happens at most once in a run; afterwards no
\* reconnection attempt is started.
C5_TerminalFailureOnce ==
    solo.exhausted <= 1 /\ ~solo.retryAfterExhausted

\* C8: once cleanup() has been called there is no reconnection activity: no
\* new peer connection, no new subscription, no Join, no local stream
\* attached again, no grace-period timer armed.
C8_NoReconnectAfterCleanup ==
    (bud.cleans > 0 /\ obs.ev # "cleanup")
        => /\ obs.ev \notin {"reconnect", "resubscribe"}
           /\ "join" \notin SentTypes
           /\ solo.pc.sig = "closed"
           /\ solo.channel = "left"
           /\ ~solo.connectionTimeout

\* C9: if cleanup() was called while an operation of the connection was in
\* flight, then afterwards no Offer or Answer is sent and
\* hasRemoteDescription, isNegotiating and the queue keep the values
\* cleanup() gave them.
C9_InFlightResultDiscarded ==
    solo.cleanedInFlight
        => /\ "offer" \notin SentTypes /\ "answer" \notin SentTypes
           /\ ~solo.hasRemoteDescription
           /\ ~solo.isNegotiating
           /\ solo.pendingCandidates = << >>

\* C10: when cleanup() has just returned the local tracks are stopped, the
\* connection is closed, no subscription to the relay is active, the queue
\* is empty, hasRemoteDescription, isNegotiating and remoteUserJoined are
\* false and the remote-stream callback has been invoked with null.
C10_AfterCleanup ==
    obs.ev = "cleanup"
        => /\ ~solo.tracksLive
           /\ solo.pc.sig = "closed"
           /\ solo.channel = "left" /\ solo.leaked = 0
           /\ solo.pendingCandidates = << >>
           /\ ~solo.hasRemoteDescription /\ ~solo.isNegotiating /\ ~solo.remoteUserJoined
           /\ obs.nulls >= 1

\* C15: onLocalStream has been invoked exactly once if a local stream was
\* ever attached, and never otherwise.
C15_LocalStreamOnce ==
    solo.locals = (IF solo.localStream THEN 1 ELSE 0)

\* C17: reconnectAttempts is always between 0 and maxReconnectAttempts; every
\* reconnection that begins (the connection is closed and the delay starts)
\* finds the counter below the maximum and adds one to it; and the counter
\* goes down only to 0, when ICE reports connected or completed.  Hence at
\* most maxReconnectAttempts reconnections begin between two successful
\* connections.
C17_AttemptsBounded ==
    /\ [](solo.reconnectAttempts \in 0..maxReconnectAttempts)
    /\ [][solo'.delaying = solo.delaying + 1
            => /\ solo.reconnectAttempts < maxReconnectAttempts
               /\ solo'.reconnectAttempts = solo.reconnectAttempts + 1
               /\ solo'.pc.sig = "closed"]_vars
    /\ [][solo'.reconnectAttempts < solo.reconnectAttempts
            => /\ obs'.ev = "iceconnectionstate"
               /\ solo'.pc.ice \in {"connected", "completed"}
               /\ solo'.reconnectAttempts = 0]_vars

\* the attempts are used up and a further failure was refused
C17_Witness ==
    /\ solo.reconnectAttempts = maxReconnectAttempts
    /\ solo.exhausted > 0
    /\ solo.delaying > 0

RestartPending(c) == c.pc.ice = "failed" /\ ~c.pc.covered /\ c.pc.sig # "closed"

\* a reconnection attempt begins: the connection is closed and the delay of
\* handleConnectionFailure starts
ReconnectionBegins(c, d) == d.delaying = c.delaying + 1

\* C27: when the ICE connection state becomes failed the coordinator asks
\* the connection for an ICE restart and neither closes or replaces the
\* connection nor counts a reconnection attempt; and no reconnection begins
\* while the restart asked for has not even been negotiated.
C27_RestartBeforeReconnect ==
    /\ [][(obs'.ev = "iceconnectionstate" /\ solo'.pc.ice = "failed")
            => /\ solo'.pc.sig = solo.pc.sig
               /\ ~solo'.pc.covered /\ solo'.pc.neg # "no"
               /\ solo'.pc.chain = solo.pc.chain
               /\ solo'.reconnectAttempts = solo.reconnectAttempts
               /\ ~ReconnectionBegins(solo, solo')]_vars
    /\ [][ReconnectionBegins(solo, solo') => ~RestartPending(solo)]_vars

ConnectivityEvents == {"iceconnectionstate", "connectionstate", "connectionTimeout"}

\* the state the connection has just reported is one of an established
\* connection
Established(c) ==
    \/ obs.ev = "iceconnectionstate" /\ c.pc.ice \in {"connected", "completed"}
    \/ obs.ev = "connectionstate" /\ c.pc.conn = "connected"

\* C28: a reconnection that the state of the connection starts begins only
\* when the grace timer expires with ICE still disconnected or failed; and
\* when the connection reports connected (or completed) while the timer is
\* pending, the timer is cancelled and no reconnection is started or counted.
C28_GracePeriod ==
    /\ [][(ReconnectionBegins(solo, solo') /\ obs'.ev \in ConnectivityEvents)
            => /\ obs'.ev = "connectionTimeout"
               /\ solo.connectionTimeout
               /\ solo.pc.ice \in {"disconnected", "failed"}]_vars
    /\ [][(solo.connectionTimeout /\ Established(solo)')
            => /\ ~solo'.connectionTimeout
               /\ ~ReconnectionBegins(solo, solo')
               /\ solo'.reconnectAttempts <= solo.reconnectAttempts]_vars

\* startCall as a reconnection runs it has re-attached the tracks, announced
\* a Join and reset the negotiation state; of the three flags only
\* isNegotiating may be set again, by the offer an interviewer starts
Restarted(d) ==
    /\ d.pc.tracks /\ ~obs.threw
    /\ "join" \in TypesOf(obs.out)
    /\ d.pendingCandidates = << >> /\ ~d.hasRemoteDescription
    /\ d.isNegotiating => startsOffer(d)

\* C29: a reconnection closes the connection when it begins; after its delay
\* it builds a new connection and unsubscribes the channel; then it
\* subscribes a new channel, the previous subscription being ended, and, if
\* a local stream is held, re-attaches it with the negotiation state reset
\* and announces a Join; the new subscription announces a Join as well.
C29_ReconnectionSteps ==
    /\ [][ReconnectionBegins(solo, solo') => solo'.pc.sig = "closed"]_vars
    /\ [][obs'.ev = "reconnect"
            => /\ solo'.pc = NewPeerConnection
               /\ solo'.channel = "left"]_vars
    /\ [][obs'.ev = "resubscribe"
            => /\ solo.channel = "left" /\ solo'.leaked = solo.leaked
               /\ solo'.channel = "joining"
               /\ solo.localStream => Restarted(solo)']_vars
    /\ [][obs'.ev = "SUBSCRIBED" => "join" \in TypesOf(obs'.out)]_vars

\* C31: the coordinator never replaces a connection that is not closed, so
\* it has at most one connection that is not closed, overlapping
\* reconnections included.
C31_OneOpenConnection ==
    solo.orphans = 0

\* the channels of the coordinator that have not been unsubscribed: the one
\* stored in this.channel and those it no longer holds
Subscriptions(c) == (IF c.channel = "left" THEN 0 ELSE 1) + c.leaked

\* C32: the coordinator has at most one subscription to the relay channel
\* at any time, so that an envelope of the relay reaches its listener at
\* most once.
C32_OneSubscription ==
    Subscriptions(solo) <= 1

\* C36: hasRemoteDescription is true only when the connection the
\* coordinator holds has a remote description, after a reconnection
\* included; and startCall() does not clear the flag on a connection that
\* has a remote description.
C36_FlagMatchesConnection ==
    /\ [](solo.hasRemoteDescription => remoteDescription(solo.pc))
    /\ [][(/\ obs'.ev \in {"startCall", "resubscribe"}
          /\ solo.hasRemoteDescription /\ remoteDescription(solo'.pc))
            => solo'.hasRemoteDescription]_vars

(***************************************************************************)
(* Properties of a coordinator and its connection (SpecLink).              *)
(***************************************************************************)
\* C30: when the connection has just reported an established state (ICE
\* connected or completed, connectionState connected) reconnectAttempts is
\* 0, and it stays 0 for as long as the ICE transport is connected, so that
\* a reconnection beginning from there is the first of maxReconnectAttempts.
C30_AttemptsReset ==
    /\ [](Established(solo) => solo.reconnectAttempts = 0)
    /\ [](solo.pc.ice \in {"connected", "completed"}
            => (solo.reconnectAttempts = 0 /\ ~attemptsUsedUp(solo)))
    /\ [][(Established(solo) /\ ReconnectionBegins(solo, solo'))
            => solo'.reconnectAttempts = 1]_vars

C30_Witness ==
    /\ Established(solo) /\ solo.regained
    /\ solo.reconnectAttempts = 0

(***************************************************************************)
(* Properties of the offers a coordinator creates (SpecOffer).             *)
(***************************************************************************)
\* isNegotiating is set on a connection in the stable state
HeldInStable(c) == c.isNegotiating /\ c.pc.sig = "stable"

\* C33: isNegotiating does not stay true for ever while the signaling state
\* is stable: whenever it is true in the stable state, it is false again, or
\* the state is no longer stable, some time later.
C33_NegotiatingReleased ==
    []<>~HeldInStable(solo)

\* the step has set a local offer on the connection
OfferSet ==
    /\ obs'.ev = "setLocalOffer"
    /\ solo.pc.sig # "closed" /\ solo'.pc.sig = "have-local-offer"
    /\ "offer" \in TypesOf(obs'.out)

\* C35: a local offer is set only on a connection in the stable state; and
\* when createOffer settles with the state not stable, no offer is handed to
\* setLocalDescription and none is sent.
C35_OfferOnlyInStable ==
    /\ [][OfferSet => solo.pc.sig = "stable"]_vars
    /\ [][(obs'.ev = "createOffer" /\ solo'.pc.sig # "stable")
            => /\ solo'.offerSeq = solo.offerSeq
               /\ "offer" \notin TypesOf(obs'.out)]_vars

(***************************************************************************)
(* Properties of an interviewer and a candidate on one call (SpecPair).    *)
(***************************************************************************)
A == co["interviewer"]

B == co["candidate"]

Collided == A.collided \cup B.collided

\* nothing is on its way or pending on either side
Quiescent ==
    \A r \in Roles :
        /\ net[r] = << >>
        /\ co[r].pc.chain = << >>
        /\ co[r].pc.neg # "pending"
        /\ co[r].delaying = 0 /\ co[r].resub = 0
        /\ co[r].channel = "subscribed"

\* C1: when the interviewer's offer and the candidate's offer are in flight
\* at the same time, the interviewer never accepts the candidate's offer,
\* and once nothing is in flight any more the candidate has accepted the
\* interviewer's offer, the interviewer has applied its answer, and both
\* sides are in the stable signaling state.
C1_InterviewerOfferWins ==
    \A p \in Collided :
        /\ p[2] \notin A.accepted
        /\ Quiescent => /\ p[1] \in B.accepted
                        /\ p[1] \in A.answered
                        /\ A.pc.sig = "stable" /\ B.pc.sig = "stable"

\* a collision has been resolved: nothing is in flight any more
C1_Witness ==
    /\ Collided # {}
    /\ Quiescent
    /\ A.pc.sig = "stable" /\ B.pc.sig = "stable"

\* both coordinators are subscribed and startCall() was called on both
BothStarted ==
    \A r \in Roles : co[r].channel = "subscribed" /\ co[r].localStream

\* an offer/answer round is complete on both sides
RoundComplete ==
    \A r \in Roles : co[r].pc.sig = "stable" /\ remoteDescription(co[r].pc)

LostOffer ==
    /\ obs.r = "interviewer" /\ "offer" \in TypesOf(obs.out)
    /\ ~Subscribed(B)

\* the interviewer's listener has just handled a Join of the candidate
JoinHeard == obs.ev = "join" /\ obs.r = "interviewer"

\* C34: after an Offer of the interviewer was lost because the candidate had
\* not subscribed yet, whenever a Join of the candidate reaches the
\* interviewer the two sides eventually complete an offer/answer round.
C34_LateCandidate ==
    [](LostOffer => [](JoinHeard => <>RoundComplete))

\* C7: when the interviewer applies the candidate's Answer to its latest
\* Offer, which reached the candidate after the candidate's startCall(),
\* both sides are in the stable signaling state,
\* each has a remote description, and the remote-stream callback of each was
\* given a stream.
C7_RoundTrip ==
    [][(/\ obs'.ev = "setRemoteAnswer" /\ obs'.r = "interviewer"
        /\ Head(A.pc.chain).s.n \in B.readyOffers
        /\ Head(A.pc.chain).s.n = A.offerSeq
        /\ A.pc.sig = "have-local-offer")
          => /\ A'.pc.sig = "stable" /\ B'.pc.sig = "stable"
             /\ remoteDescription(A'.pc) /\ remoteDescription(B'.pc)
             /\ A'.gotStream /\ B'.gotStream]_vars

\* the interviewer has just applied the Answer of a started candidate
C7_Witness ==
    /\ obs.ev = "setRemoteAnswer" /\ obs.r = "interviewer"
    /\ A.answered \cap B.readyOffers # {}
    /\ A.pc.sig = "stable" /\ B.pc.sig = "stable"
    /\ A.gotStream /\ B.gotStream

====
